---- MODULE Spec2Model ----
(***************************************************************************)
(* OppWorks Procurement (app.py, v0.4-pipeline): the pipeline status       *)
(* engine (derive_status, update_stage_date, the Purchases form) and the   *)
(* document version ledger (next_version, the save-document branch of      *)
(* stage_page) as a state machine over the SQLite tables and the storage   *)
(* folders.  Every exec_sql call commits on its own connection, so each    *)
(* SQL statement of a handler is one step that other sessions can observe. *)
(***************************************************************************)
EXTENDS Integers, Sequences, FiniteSets, TLC

(* ------------------------------ bounds --------------------------------- *)
MaxPurchases == 2
MaxDocs == 3
MaxMarks == 2
MaxAborts == 1
MaxEdited == 2

(* Streamlit sessions (script runs) that may write to the same database.   *)
Writers == {1, 2}

(* --------------------------- values and text --------------------------- *)
(* A nullable TEXT value: Python None / SQL NULL, or a str.                *)
NULL == [isNull |-> TRUE, text |-> ""]
Text(s) == [isNull |-> FALSE, text |-> s]

(* Python truthiness of an Optional[str].                                  *)
TruthyMutEmptyPresent(v) == ~v.isNull
Truthy(v) == ~v.isNull /\ v.text # ""

(* datetime.date values: the two days the model runs over.                 *)
Days == << [year |-> 2026, month |-> 11, day |-> 3],
           [year |-> 2026, month |-> 11, day |-> 4] >>
Dates == {Days[n] : n \in DOMAIN Days}

MonthNames ==
    <<"January", "February", "March", "April", "May", "June", "July",
      "August", "September", "October", "November", "December">>

Pad2(n) == IF n < 10 THEN "0" \o ToString(n) ELSE ToString(n)

(* dt.strftime("%d %B %Y")                                                 *)
month_text_date(dt) ==
    Pad2(dt.day) \o " " \o MonthNames[dt.month] \o " " \o ToString(dt.year)

(* datetime.now().strftime('%Y%m%d')                                       *)
ymd(dt) == ToString(dt.year) \o Pad2(dt.month) \o Pad2(dt.day)

(* --------------------------- status engine ----------------------------- *)
STATUS_ORDER ==
    << [col |-> "rfq_sent_date",              label |-> "RFQ Sent"],
       [col |-> "quote_received_date",        label |-> "Quote Received"],
       [col |-> "requisition_requested_date", label |-> "Requisition Requested"],
       [col |-> "order_sent_date",            label |-> "Order Sent"],
       [col |-> "delivered_date",             label |-> "Delivered"],
       [col |-> "invoice_signed_date",        label |-> "Invoice Signed"],
       [col |-> "receipting_sent_date",       label |-> "Sent for Receipting"] >>

Cols == {STATUS_ORDER[i].col : i \in DOMAIN STATUS_ORDER}

(* dict.get(col): None when the key is missing.                            *)
Get(row, col) == IF col \in DOMAIN row THEN row[col] ELSE NULL

RECURSIVE DeriveLoop(_, _, _)
DeriveLoop(row, i, last) ==
    IF i > Len(STATUS_ORDER) THEN last
    ELSE DeriveLoop(row, i + 1,
                    IF Truthy(Get(row, STATUS_ORDER[i].col))
                    THEN STATUS_ORDER[i].label ELSE last)

RECURSIVE DeriveFirstLoop(_, _)
DeriveFirstLoop(row, i) ==
    IF i > Len(STATUS_ORDER) THEN "Not Started"
    ELSE IF Truthy(Get(row, STATUS_ORDER[i].col)) THEN STATUS_ORDER[i].label
    ELSE DeriveFirstLoop(row, i + 1)

derive_statusMutFirst(row) == DeriveFirstLoop(row, 1)
derive_status(row) == DeriveLoop(row, 1, "Not Started")

(* ------------------------------ paths ---------------------------------- *)
join(a, b) == a \o "/" \o b

(* DEFAULT_STORAGE_ROOT and BACKUPS_DIR, relative to ROOT.                 *)
DEFAULT_STORAGE_ROOT == "OppWorks_Procurement"
BACKUPS_DIR == "backups"

(* ------------------------------- state --------------------------------- *)
VARIABLES
    suppliers,   \* table suppliers, row id = position
    projects,    \* table projects, row id = position
    purchases,   \* table purchases, row id = position
    documents,   \* table documents, row id = position
    files,       \* paths of the files that exist under ROOT
    master,      \* the inventory editor's master table, in insertion order
    today,       \* date.today(), as an index of Days
    marks,       \* number of "Mark date as today" presses so far
    aborts,      \* number of script runs that failed part-way so far
    pc,          \* per session: where its current script run stands
    local,       \* per session: the local variables of its current run
    row_in,      \* argument of a stand-alone derive_status call
    status_out   \* its result

vars == <<suppliers, projects, purchases, documents, files, master, today,
          marks, aborts, pc, local, row_in, status_out>>

NoLocal == [pid |-> 0, col |-> "", row |-> <<>>, status |-> "",
            dtype |-> "", v |-> 0, dest |-> "", upload |-> "",
            fname |-> "", fpath |-> "", doc_id |-> 0]

(* The data directory after ensure_tables() and after one supplier and one *)
(* project were entered on the Suppliers and Projects pages (the Purchases *)
(* form refuses to show before both tables have a row); the project's root *)
(* folder is storage_root/<name>.  No purchase, no document, no file yet.  *)
Tables0 ==
    /\ suppliers = << [name |-> "J. Smith", company |-> "Acme",
                       created_at |-> month_text_date(Days[1])] >>
    /\ projects = << [name |-> "Plant",
                      root_folder |-> join(DEFAULT_STORAGE_ROOT, "Plant"),
                      created_at |-> month_text_date(Days[1])] >>
    /\ purchases = <<>>
    /\ documents = <<>>
    /\ files = {}
    /\ master = <<>>
    /\ today = 1
    /\ marks = 0
    /\ aborts = 0
    /\ pc = [w \in Writers |-> "idle"]
    /\ local = [w \in Writers |-> NoLocal]

Init ==
    /\ Tables0
    /\ row_in = <<>>
    /\ status_out = NULL

Today == Days[today]

(* The calendar moves on between interactions.                             *)
NextDay ==
    /\ today < Len(Days)
    /\ today' = today + 1
    /\ UNCHANGED <<suppliers, projects, purchases, documents, files,
                   master, marks, aborts, pc, local, row_in, status_out>>

(* ------------------------------ purchases ------------------------------ *)
(* A st.date_input value: a date, or None when the widget holds no date.   *)
NoDate == [year |-> 0, month |-> 0, day |-> 0]
DateTruthy(d) == d # NoDate

(* The seven date widgets of the Purchases form as the user leaves them:   *)
(* untouched (every widget holds the day's date), all cleared, only RFQ    *)
(* Sent, or RFQ Sent and Delivered.                                        *)
UntouchedForm(d) == [c \in Cols |-> d]

FormDates(d) ==
    { UntouchedForm(d),
      [c \in Cols |-> NoDate],
      [c \in Cols |-> IF c = "rfq_sent_date" THEN d ELSE NoDate],
      [c \in Cols |-> IF c \in {"rfq_sent_date", "delivered_date"}
                      THEN d ELSE NoDate] }

(* row = {col: month_text_date(x) if x else None}                          *)
FormRow(dates) ==
    [c \in Cols |-> IF DateTruthy(dates[c])
                    THEN Text(month_text_date(dates[c])) ELSE NULL]

PurchaseRecord(project_id, supplier_id, row, status, created_at) ==
    [project_id |-> project_id,
     supplier_id |-> supplier_id,
     rfq_sent_date |-> row["rfq_sent_date"],
     quote_received_date |-> row["quote_received_date"],
     requisition_requested_date |-> row["requisition_requested_date"],
     order_sent_date |-> row["order_sent_date"],
     delivered_date |-> row["delivered_date"],
     invoice_signed_date |-> row["invoice_signed_date"],
     receipting_sent_date |-> row["receipting_sent_date"],
     status |-> status,
     created_at |-> created_at]

(* Purchases page, form "add_purchase", Save Purchase.                     *)
SavePurchase(w, project_id, supplier_id, dates) ==
    /\ pc[w] = "idle"
    /\ projects # <<>> /\ suppliers # <<>>
    /\ Len(purchases) < MaxPurchases
    /\ LET row == FormRow(dates)
           status == derive_status(row)
       IN purchases' = Append(purchases,
                              PurchaseRecord(project_id, supplier_id, row, status,
                                             month_text_date(Today)))
    /\ UNCHANGED <<suppliers, projects, documents, files, master, today,
                   marks, aborts, pc, local, row_in, status_out>>

(* SELECT the seven dates FROM purchases WHERE id=?; {} when no such row.  *)
get_purchase_dict(pid) ==
    IF pid \in DOMAIN purchases
    THEN [c \in Cols |-> purchases[pid][c]]
    ELSE <<>>

(* The six stage pages: stage_page(title, stage_col, stage_label,          *)
(* default_doc_type, allow_doc_choice).                                    *)
StagePages ==
    << [title |-> "Quote Received", stage_col |-> "quote_received_date",
        stage_label |-> "Quote Received", default_doc_type |-> "Quote",
        allow_doc_choice |-> FALSE],
       [title |-> "Requisition Sent", stage_col |-> "requisition_requested_date",
        stage_label |-> "Requisition Requested", default_doc_type |-> "Quote",
        allow_doc_choice |-> FALSE],
       [title |-> "Order Sent", stage_col |-> "order_sent_date",
        stage_label |-> "Order Sent", default_doc_type |-> "Order",
        allow_doc_choice |-> FALSE],
       [title |-> "Delivery / Invoice", stage_col |-> "delivered_date",
        stage_label |-> "Delivered", default_doc_type |-> "Delivery",
        allow_doc_choice |-> TRUE],
       [title |-> "Invoice Signed", stage_col |-> "invoice_signed_date",
        stage_label |-> "Invoice Signed", default_doc_type |-> "Invoice",
        allow_doc_choice |-> FALSE],
       [title |-> "Sent for Receipting", stage_col |-> "receipting_sent_date",
        stage_label |-> "Sent for Receipting", default_doc_type |-> "Invoice",
        allow_doc_choice |-> FALSE] >>

(* stage_page's "Purchases at this stage": the listing query returns       *)
(* purchase pid when its project and its supplier join and its status is   *)
(* stage_label.                                                            *)
ListedMutByDate(page, pid) ==
    /\ purchases[pid].project_id \in DOMAIN projects
    /\ purchases[pid].supplier_id \in DOMAIN suppliers
    /\ Truthy(purchases[pid][StagePages[page].stage_col])

Listed(page, pid) ==
    /\ purchases[pid].project_id \in DOMAIN projects
    /\ purchases[pid].supplier_id \in DOMAIN suppliers
    /\ purchases[pid].status = StagePages[page].stage_label

StageListing(page) == {pid \in DOMAIN purchases : Listed(page, pid)}

(* update_stage_date, first half: read the row, set row[col], derive the   *)
(* status.  pid is an option of the page's Purchase select box.            *)
MarkRead(w, page, pid) ==
    /\ pc[w] = "idle"
    /\ marks < MaxMarks
    /\ pid \in DOMAIN purchases
    /\ LET col == StagePages[page].stage_col
           row == [c \in DOMAIN get_purchase_dict(pid) \cup {col} |->
                     IF c = col THEN Text(month_text_date(Today))
                     ELSE get_purchase_dict(pid)[c]]
       IN local' = [local EXCEPT ![w] =
                      [NoLocal EXCEPT !.pid = pid, !.col = col, !.row = row,
                                      !.status = derive_status(row)]]
    /\ pc' = [pc EXCEPT ![w] = "mark_read"]
    /\ marks' = marks + 1
    /\ UNCHANGED <<suppliers, projects, purchases, documents, files,
                   master, today, aborts, row_in, status_out>>

(* UPDATE purchases SET {col}=?, status=? WHERE id=?                       *)
UpdatedPurchasesMutClear(pid, col, value, status) ==
    [i \in DOMAIN purchases |->
       IF i = pid
       THEN [f \in DOMAIN purchases[i] |->
               IF f = col THEN value
               ELSE IF f = "status" THEN status
               ELSE IF f \in Cols THEN NULL
               ELSE purchases[i][f]]
       ELSE purchases[i]]

UpdatedPurchasesMutStageLabel(pid, col, value, status) ==
    [i \in DOMAIN purchases |->
       IF i = pid
       THEN [purchases[i] EXCEPT
               ![col] = value,
               !.status = STATUS_ORDER[CHOOSE k \in DOMAIN STATUS_ORDER :
                                         STATUS_ORDER[k].col = col].label]
       ELSE purchases[i]]

UpdatedPurchases(pid, col, value, status) ==
    [i \in DOMAIN purchases |->
       IF i = pid
       THEN [purchases[i] EXCEPT ![col] = value, !.status = status]
       ELSE purchases[i]]

(* update_stage_date, second half: the UPDATE, committed.                  *)
MarkWrite(w) ==
    /\ pc[w] = "mark_read"
    /\ purchases' = UpdatedPurchases(local[w].pid, local[w].col,
                                     local[w].row[local[w].col], local[w].status)
    /\ pc' = [pc EXCEPT ![w] = "idle"]
    /\ local' = [local EXCEPT ![w] = NoLocal]
    /\ UNCHANGED <<suppliers, projects, documents, files, master, today,
                   marks, aborts, row_in, status_out>>

(* -------------------- derive_status on its own ------------------------- *)
RowValues == {NULL, Text("")} \cup {Text(month_text_date(d)) : d \in Dates}
RowInputs == UNION {[S -> RowValues] : S \in SUBSET Cols}

InitStatus ==
    /\ Tables0
    /\ row_in \in RowInputs
    /\ status_out = NULL

ApplyDerive ==
    /\ status_out = NULL
    /\ status_out' = Text(derive_status(row_in))
    /\ UNCHANGED <<suppliers, projects, purchases, documents, files,
                   master, today, marks, aborts, pc, local, row_in>>

NextStatus == ApplyDerive
SpecStatus == InitStatus /\ [][NextStatus]_vars

(* ------------------- purchases, one session writing -------------------- *)
NextPurchases ==
    \/ NextDay
    \/ \E prj \in DOMAIN projects, sup \in DOMAIN suppliers, d \in FormDates(Today) :
          SavePurchase(1, prj, sup, d)
    \/ \E page \in DOMAIN StagePages, pid \in DOMAIN purchases :
          MarkRead(1, page, pid)
    \/ MarkWrite(1)

SpecPurchases == Init /\ [][NextPurchases]_vars

(* --------------------------- document ledger --------------------------- *)
DocTypeChoices == {"Delivery", "Invoice"}

(* SELECT COALESCE(MAX(version),0) FROM documents WHERE purchase_id=? AND  *)
(* doc_type=?: the aggregate scans the table; acc is the running maximum,  *)
(* 0 standing for "no row yet".                                            *)
RECURSIVE MaxVersionScan(_, _, _, _)
MaxVersionScan(purchase_id, doc_type, i, acc) ==
    IF i > Len(documents) THEN acc
    ELSE MaxVersionScan(purchase_id, doc_type, i + 1,
           IF /\ documents[i].purchase_id = purchase_id
              /\ documents[i].doc_type = doc_type
              /\ documents[i].version > acc
           THEN documents[i].version ELSE acc)

RECURSIVE MaxVersionScanAnyType(_, _, _)
MaxVersionScanAnyType(purchase_id, i, acc) ==
    IF i > Len(documents) THEN acc
    ELSE MaxVersionScanAnyType(purchase_id, i + 1,
           IF /\ documents[i].purchase_id = purchase_id
              /\ documents[i].version > acc
           THEN documents[i].version ELSE acc)

next_versionMutAnyType(purchase_id, doc_type) ==
    MaxVersionScanAnyType(purchase_id, 1, 0) + 1

next_versionMutSkip(purchase_id, doc_type) ==
    IF MaxVersionScan(purchase_id, doc_type, 1, 0) = 0 THEN 1
    ELSE MaxVersionScan(purchase_id, doc_type, 1, 0) + 2

next_versionMutCount(purchase_id, doc_type) ==
    Cardinality({i \in DOMAIN documents :
                   /\ documents[i].purchase_id = purchase_id
                   /\ documents[i].doc_type = doc_type /\ documents[i].is_current = 1}) + 1

next_version(purchase_id, doc_type) ==
    MaxVersionScan(purchase_id, doc_type, 1, 0) + 1

(* A file name as os.path.splitext sees it.                                *)
FileName(fname) == fname.base \o fname.ext

versioned_name(filename, v) ==
    [base |-> filename.base \o "_v" \o ToString(v), ext |-> filename.ext]

(* save_file: while os.path.exists(dest): fname = f"{b}_{i}{e}"; i += 1    *)
RECURSIVE FreeName(_, _, _)
FreeName(folder, fname, i) ==
    IF join(folder, FileName(fname)) \in files
    THEN FreeName(folder, [base |-> fname.base \o "_" \o ToString(i),
                           ext |-> fname.ext], i + 1)
    ELSE fname

save_file(uploaded_name, folder, v) ==
    LET fname == FreeName(folder, versioned_name(uploaded_name, v), 1)
    IN [fname |-> FileName(fname), dest |-> join(folder, FileName(fname))]

(* save_text_pdf: Pasted_v{v}_{%Y%m%d_%H%M%S}.pdf, written by pdf.output.  *)
save_text_pdf(hms, folder, v) ==
    LET fname == "Pasted_v" \o ToString(v) \o "_" \o ymd(Today) \o "_" \o hms \o ".pdf"
    IN [fname |-> fname, dest |-> join(folder, fname)]

(* snapshot_copy: BACKUPS_DIR/documents/purchase_{pid}/{dtype}/v{v}_{name}  *)
snapshot_path(fname, pid, dtype, v) ==
    join(join(join(join(BACKUPS_DIR, "documents"), "purchase_" \o ToString(pid)),
              dtype),
         "v" \o ToString(v) \o "_" \o fname)

(* What the user hands to "Save document": an uploaded file (its name), or *)
(* pasted text (the second of the day at which the PDF is named).          *)
UploadNames == {[base |-> "quote", ext |-> ".pdf"]}
TimesOfDay == {"093000"}
Contents ==
    {[kind |-> "upload", name |-> n, hms |-> ""] : n \in UploadNames}
    \cup {[kind |-> "paste", name |-> [base |-> "", ext |-> ""], hms |-> t] :
            t \in TimesOfDay}

(* Save runs of other sessions that have read a version and not inserted.  *)
Pending == {w \in Writers : pc[w] \in {"doc_read", "doc_stored"}}

(* stage_page, "Save document": row = all_df.loc[pid]; v = next_version;   *)
(* dest = prj_root/dtype.                                                  *)
DocRead(w, page, choice, pid, content) ==
    /\ pc[w] = "idle"
    /\ Len(documents) + Cardinality(Pending) < MaxDocs
    /\ pid \in DOMAIN purchases
    /\ LET dtype == IF StagePages[page].allow_doc_choice THEN choice
                    ELSE StagePages[page].default_doc_type
           prj_root == projects[purchases[pid].project_id].root_folder
       IN local' = [local EXCEPT ![w] =
                      [NoLocal EXCEPT !.pid = pid, !.dtype = dtype,
                                      !.v = next_version(pid, dtype),
                                      !.dest = join(prj_root, dtype),
                                      !.upload = content]]
    /\ pc' = [pc EXCEPT ![w] = "doc_read"]
    /\ UNCHANGED <<suppliers, projects, purchases, documents, files,
                   master, today, marks, aborts, row_in, status_out>>

(* save_file(uploaded, dest, v) or save_text_pdf(pasted, dest, logo, v).   *)
DocStore(w) ==
    /\ pc[w] = "doc_read"
    /\ LET saved == IF local[w].upload.kind = "upload"
                    THEN save_file(local[w].upload.name, local[w].dest, local[w].v)
                    ELSE save_text_pdf(local[w].upload.hms, local[w].dest, local[w].v)
       IN /\ files' = files \cup {saved.dest}
          /\ local' = [local EXCEPT ![w].fname = saved.fname,
                                    ![w].fpath = saved.dest]
    /\ pc' = [pc EXCEPT ![w] = "doc_stored"]
    /\ UNCHANGED <<suppliers, projects, purchases, documents, master,
                   today, marks, aborts, row_in, status_out>>

(* The version an INSERT stores: the v read by next_version earlier.       *)
InsertVersionMutFresh(w) == next_version(local[w].pid, local[w].dtype)
InsertVersion(w) == local[w].v

(* INSERT INTO documents(...) VALUES(?,?,?,?,?,?,1), committed; doc_id is  *)
(* cur.lastrowid.                                                          *)
DocInsert(w) ==
    /\ pc[w] = "doc_stored"
    /\ documents' = Append(documents,
                           [purchase_id |-> local[w].pid,
                            doc_type |-> local[w].dtype,
                            filename |-> local[w].fname,
                            saved_path |-> local[w].fpath,
                            uploaded_at |-> month_text_date(Today),
                            version |-> InsertVersion(w),
                            is_current |-> 1])
    /\ local' = [local EXCEPT ![w].doc_id = Len(documents) + 1]
    /\ pc' = [pc EXCEPT ![w] = "doc_inserted"]
    /\ UNCHANGED <<suppliers, projects, purchases, files, master, today,
                   marks, aborts, row_in, status_out>>

(* UPDATE documents SET is_current=0 WHERE purchase_id=? AND doc_type=?    *)
(* AND id<>?                                                               *)
DemotedMutAllTypes(purchase_id, doc_type, doc_id) ==
    [i \in DOMAIN documents |->
       IF /\ documents[i].purchase_id = purchase_id
          /\ i # doc_id
       THEN [documents[i] EXCEPT !.is_current = 0]
       ELSE documents[i]]

DemotedMutDelete(purchase_id, doc_type, doc_id) ==
    LET keep(d) == \/ d.purchase_id # purchase_id
                   \/ d.doc_type # doc_type
                   \/ d = documents[doc_id]
    IN SelectSeq(documents, keep)

DemotedMutKeepOld(purchase_id, doc_type, doc_id) ==
    [i \in DOMAIN documents |->
       IF /\ documents[i].purchase_id = purchase_id
          /\ documents[i].doc_type = doc_type
          /\ i # doc_id /\ i + 1 # doc_id
       THEN [documents[i] EXCEPT !.is_current = 0]
       ELSE documents[i]]

Demoted(purchase_id, doc_type, doc_id) ==
    [i \in DOMAIN documents |->
       IF /\ documents[i].purchase_id = purchase_id
          /\ documents[i].doc_type = doc_type
          /\ i # doc_id
       THEN [documents[i] EXCEPT !.is_current = 0]
       ELSE documents[i]]

(* The demoting UPDATE, committed, then snapshot_copy; the run ends.       *)
DocDemote(w) ==
    /\ pc[w] = "doc_inserted"
    /\ documents' = Demoted(local[w].pid, local[w].dtype, local[w].doc_id)
    /\ files' = files \cup {snapshot_path(local[w].fname, local[w].pid,
                                          local[w].dtype, local[w].v)}
    /\ pc' = [pc EXCEPT ![w] = "idle"]
    /\ local' = [local EXCEPT ![w] = NoLocal]
    /\ UNCHANGED <<suppliers, projects, purchases, master, today, marks,
                   aborts, row_in, status_out>>

AbortMutRollback(w) ==
    /\ pc[w] # "idle"
    /\ aborts < MaxAborts
    /\ aborts' = aborts + 1
    /\ documents' = IF pc[w] = "doc_inserted"
                    THEN SubSeq(documents, 1, local[w].doc_id - 1)
                    ELSE documents
    /\ pc' = [pc EXCEPT ![w] = "idle"]
    /\ local' = [local EXCEPT ![w] = NoLocal]
    /\ UNCHANGED <<suppliers, projects, purchases, files, master, today,
                   marks, row_in, status_out>>

(* A script run that raises (a failed write, a locked database, a killed   *)
(* process) stops where it stands: what it committed stays, nothing after  *)
(* it runs, and no handler undoes anything.                                *)
Abort(w) ==
    /\ pc[w] # "idle"
    /\ aborts < MaxAborts
    /\ aborts' = aborts + 1
    /\ pc' = [pc EXCEPT ![w] = "idle"]
    /\ local' = [local EXCEPT ![w] = NoLocal]
    /\ UNCHANGED <<suppliers, projects, purchases, documents, files,
                   master, today, marks, row_in, status_out>>

(* The steps of one "Save document" run of session w, the page and the     *)
(* content chosen among the given ones.                                    *)
SaveDocument(w, pages, contents) ==
    \/ \E page \in pages, choice \in DocTypeChoices,
          pid \in DOMAIN purchases, content \in contents :
          DocRead(w, page, choice, pid, content)
    \/ DocStore(w)
    \/ DocInsert(w)
    \/ DocDemote(w)

(* The steps of one "Mark date as today" run of session w.                 *)
MarkToday(w, pages) ==
    \/ \E page \in pages, pid \in DOMAIN purchases : MarkRead(w, page, pid)
    \/ MarkWrite(w)

NewPurchase(w) ==
    \E prj \in DOMAIN projects, sup \in DOMAIN suppliers :
        SavePurchase(w, prj, sup, UntouchedForm(Today))

AllPages == DOMAIN StagePages
Uploads == {c \in Contents : c.kind = "upload"}

(* The pages Quote Received and Order Sent.                                *)
TwoPages == {p \in AllPages : StagePages[p].title \in {"Quote Received", "Order Sent"}}

(* The page Quote Received.                                                *)
OnePage == {p \in AllPages : StagePages[p].title = "Quote Received"}

(* One session saving documents, every run completing.                     *)
NextDocs == NewPurchase(1) \/ SaveDocument(1, AllPages, Contents)
SpecDocs == Init /\ [][NextDocs]_vars

(* One session saving documents, runs may fail part-way.                   *)
NextDocsFail ==
    NewPurchase(1) \/ SaveDocument(1, TwoPages, Uploads) \/ Abort(1)
SpecDocsFail == Init /\ [][NextDocsFail]_vars

(* Two sessions saving documents into the same database.                   *)
NextRace ==
    \E w \in Writers : NewPurchase(w) \/ SaveDocument(w, TwoPages, Uploads)
SpecRace == Init /\ [][NextRace]_vars

(* One session using every operation of the application.                   *)
NextApp ==
    \/ NewPurchase(1)
    \/ MarkToday(1, OnePage)
    \/ SaveDocument(1, TwoPages, Uploads)
    \/ Abort(1)
SpecApp == Init /\ [][NextApp]_vars

(* Pasted text saved one second later than TimesOfDay.                    *)
LaterPastes ==
    {[kind |-> "paste", name |-> [base |-> "", ext |-> ""], hms |-> "093001"]}

(* Two sessions saving uploads and pasted text on the Quote Received page. *)
NextFiles ==
    \E w \in Writers :
        NewPurchase(w) \/ SaveDocument(w, OnePage, Contents \cup LaterPastes)
SpecFiles == Init /\ [][NextFiles]_vars

(* ---------------- inventory editor: table reconciliation --------------- *)
(* Row identities the generator can produce.                               *)
IdPool == {"r1", "r2", "r3"}

(* A text cell is a sequence of characters; trimming drops the blanks at   *)
(* both ends.                                                              *)
RECURSIVE TrimLeft(_)
TrimLeft(t) ==
    IF t # <<>> /\ Head(t) = " " THEN TrimLeft(Tail(t)) ELSE t

RECURSIVE TrimRight(_)
TrimRight(t) ==
    IF t # <<>> /\ t[Len(t)] = " " THEN TrimRight(SubSeq(t, 1, Len(t) - 1)) ELSE t

Trim(t) == TrimRight(TrimLeft(t))

(* A numeric cell as typed: a number, or text that does not parse.         *)
Num(n) == [ok |-> TRUE, n |-> n]
NotANumber == [ok |-> FALSE, n |-> 0]

(* Numeric coercion: the default 0 for an unparseable cell, and the lower  *)
(* bound 0.                                                                *)
Coerce(cell) == IF ~cell.ok THEN 0 ELSE IF cell.n < 0 THEN 0 ELSE cell.n

(* What an editor leaves in the visible cells of a row: the blank trailing *)
(* row, a coded item, a described item with a negative quantity, and a     *)
(* coded item with an unparseable quantity.                                *)
EditedCells ==
    { [item_code |-> <<" ">>, description |-> <<>>, qty |-> Num(0)],
      [item_code |-> <<"X", "1">>, description |-> <<>>, qty |-> Num(2)],
      [item_code |-> <<>>, description |-> <<"d", " ">>, qty |-> Num(-5)],
      [item_code |-> <<"X", "1">>, description |-> <<>>, qty |-> NotANumber] }

BlankCells == [item_code |-> <<>>, description |-> <<>>, qty |-> Num(0)]

EditedRow(id, del, cells) ==
    [row_id |-> id, delete |-> del, item_code |-> cells.item_code,
     description |-> cells.description, qty |-> cells.qty]

(* Rows of an edited view: new rows (no identity, never flagged), rows     *)
(* carrying an identity with edited cells, rows flagged for deletion.      *)
EditedRows ==
    {EditedRow("", FALSE, c) : c \in EditedCells}
    \cup {EditedRow(id, FALSE, c) : id \in IdPool, c \in EditedCells}
    \cup {EditedRow(id, TRUE, BlankCells) : id \in IdPool}

EditedViews == UNION {[1..n -> EditedRows] : n \in 0..MaxEdited}

Identities(m) == {m[i].row_id : i \in DOMAIN m}

(* 1. Delete: the flagged rows' identities leave the master.               *)
DeletionSet(view) ==
    {view[k].row_id : k \in {j \in DOMAIN view :
                               view[j].delete /\ view[j].row_id # ""}}

AfterDelete(m, view) ==
    LET kept(r) == r.row_id \notin DeletionSet(view)
    IN SelectSeq(m, kept)

(* 2. Update: each unflagged row with an identity overwrites the cells of  *)
(* the master row of that identity, in view order; no such row, no effect. *)
Overwrite(m, e) ==
    [i \in DOMAIN m |->
       IF m[i].row_id = e.row_id
       THEN [m[i] EXCEPT !.item_code = e.item_code,
                         !.description = e.description, !.qty = e.qty]
       ELSE m[i]]

RECURSIVE AfterUpdate(_, _, _)
AfterUpdate(m, view, k) ==
    IF k > Len(view) THEN m
    ELSE AfterUpdate(IF view[k].row_id # "" /\ ~view[k].delete
                     THEN Overwrite(m, view[k]) ELSE m,
                     view, k + 1)

(* 3. Insert: the rows without identity that have a key field left after   *)
(* trimming.                                                               *)
Candidates(view) ==
    LET kept(e) == /\ e.row_id = ""
                   /\ Trim(e.item_code) # <<>> \/ Trim(e.description) # <<>>
    IN SelectSeq(view, kept)

(* The collision check of a generated identity against the master.         *)
CollidesMutNever(m, token) == FALSE
Collides(m, token) == token \in Identities(m)

(* Each candidate is appended under the identity the generator ended on;   *)
(* tokens[k] is that identity for the k-th candidate.                      *)
RECURSIVE AfterInsert(_, _, _, _)
AfterInsert(m, cands, tokens, k) ==
    IF k > Len(cands) THEN m
    ELSE AfterInsert(Append(m, [row_id |-> tokens[k],
                                item_code |-> cands[k].item_code,
                                description |-> cands[k].description,
                                qty |-> cands[k].qty]),
                     cands, tokens, k + 1)

(* The generator regenerates on collision: it ends on tokens[k] only if    *)
(* tokens[k] passes the check against the master as it is at that moment.  *)
RECURSIVE Accepted(_, _, _, _)
Accepted(m, cands, tokens, k) ==
    IF k > Len(cands) THEN TRUE
    ELSE /\ ~Collides(m, tokens[k])
         /\ Accepted(Append(m, [row_id |-> tokens[k],
                                item_code |-> cands[k].item_code,
                                description |-> cands[k].description,
                                qty |-> cands[k].qty]),
                     cands, tokens, k + 1)

(* 4. Normalize: strings trimmed, numbers coerced and clamped.             *)
Normalize(m) ==
    [i \in DOMAIN m |->
       [row_id |-> m[i].row_id,
        item_code |-> Trim(m[i].item_code),
        description |-> Trim(m[i].description),
        qty |-> Num(Coerce(m[i].qty))]]

reconcile(m, view, tokens) ==
    LET updated == AfterUpdate(AfterDelete(m, view), view, 1)
    IN Normalize(AfterInsert(updated, Candidates(view), tokens, 1))

(* One reconcile pass of the editor over the master table.                 *)
Reconcile(view, tokens) ==
    /\ Accepted(AfterUpdate(AfterDelete(master, view), view, 1),
                Candidates(view), tokens, 1)
    /\ master' = reconcile(master, view, tokens)
    /\ UNCHANGED <<suppliers, projects, purchases, documents, files, today,
                   marks, aborts, pc, local, row_in, status_out>>

NextInventory ==
    \E view \in EditedViews :
        \E tokens \in [1..Len(Candidates(view)) -> IdPool] :
            Reconcile(view, tokens)
SpecInventory == Init /\ [][NextInventory]_vars

(* ======================= properties of the code ======================== *)
DocTypes ==
    {StagePages[p].default_doc_type : p \in DOMAIN StagePages} \cup DocTypeChoices

(* The canonical indexes whose key holds a non-empty string in row.        *)
PresentIdx(row) ==
    {i \in DOMAIN STATUS_ORDER :
       /\ STATUS_ORDER[i].col \in DOMAIN row
       /\ row[STATUS_ORDER[i].col] \notin {NULL, Text("")}}

HighestLabel(row) ==
    IF PresentIdx(row) = {} THEN "Not Started"
    ELSE STATUS_ORDER[CHOOSE i \in PresentIdx(row) :
                        \A j \in PresentIdx(row) : j <= i].label

DatesOf(i) == [c \in Cols |-> purchases[i][c]]

(* C1: derive_status(M) is the label of the highest-index key of the       *)
(* canonical order that is present in M, "Not Started" when none is; a key *)
(* holding the empty string or None, or missing, is not present.           *)
C1_DeriveStatusHighest ==
    status_out # NULL => status_out = Text(HighestLabel(row_in))

(* C1 witness: a call whose mapping holds a date for RFQ Sent, an empty    *)
(* string for a later key, None for another and lacks a key altogether,    *)
(* and that returned "RFQ Sent".                                           *)
C1_Witness ==
    /\ status_out = Text("RFQ Sent")
    /\ DOMAIN row_in = Cols \ {"order_sent_date"}
    /\ row_in["delivered_date"] = Text("")
    /\ row_in["receipting_sent_date"] = NULL

(* C2: with one session writing, the stored status of every purchase is    *)
(* the label of the highest-index milestone date stored on it, or "Not     *)
(* Started" when it stores none.                                           *)
C2_StatusMatchesDates ==
    \A i \in DOMAIN purchases : purchases[i].status = HighestLabel(DatesOf(i))

(* C2 witness: a purchase created with RFQ Sent and Delivered only, whose  *)
(* Quote Received date was marked afterwards: its status is "Delivered".   *)
C2_Witness ==
    \E i \in DOMAIN purchases :
        /\ purchases[i].status = "Delivered"
        /\ Truthy(purchases[i].quote_received_date)
        /\ ~Truthy(purchases[i].order_sent_date)
        /\ pc[1] = "idle"

SamePair(d, e) == d.purchase_id = e.purchase_id /\ d.doc_type = e.doc_type

DuplicateVersions ==
    \E i, j \in DOMAIN documents :
        /\ i # j
        /\ SamePair(documents[i], documents[j])
        /\ documents[i].version = documents[j].version

(* C4: with one session writing, no two documents of the same (purchase,   *)
(* document type) carry the same version, and every inserted document's    *)
(* version is greater than that of every document of its pair stored       *)
(* before it.                                                              *)
C4_VersionsUniqueIncreasing ==
    /\ [](~DuplicateVersions)
    /\ [][Len(documents') = Len(documents) + 1
          => \A i \in DOMAIN documents :
               SamePair(documents[i], documents'[Len(documents')])
               => documents[i].version < documents'[Len(documents')].version]_vars

(* C4 witness: a pair holding versions 1 and 2 next to a document of       *)
(* another pair.                                                           *)
C4_Witness ==
    \E i, j, k \in DOMAIN documents :
        /\ SamePair(documents[i], documents[j])
        /\ documents[i].version = 1 /\ documents[j].version = 2
        /\ ~SamePair(documents[i], documents[k])

VersionsOf(p, t) ==
    {documents[i].version :
       i \in {j \in DOMAIN documents :
                documents[j].purchase_id = p /\ documents[j].doc_type = t}}

(* C5: next_version(p, t) is 1 when no document of the pair (p, t) is      *)
(* stored, and otherwise one more than the greatest version among the      *)
(* documents of exactly that pair, whatever other pairs hold.              *)
C5_NextVersion ==
    \A p \in 1..MaxPurchases, t \in DocTypes :
        next_version(p, t) =
            IF VersionsOf(p, t) = {} THEN 1
            ELSE 1 + CHOOSE m \in VersionsOf(p, t) : \A n \in VersionsOf(p, t) : n <= m

(* C5 witness: a purchase with two documents of one type and one of        *)
(* another type: next_version is 3 for the first type, 2 for the second    *)
(* and 1 for a type without documents.                                     *)
C5_Witness ==
    \E p \in DOMAIN purchases, t, u, x \in DocTypes :
        /\ VersionsOf(p, t) = {1, 2} /\ next_version(p, t) = 3
        /\ VersionsOf(p, u) = {1} /\ next_version(p, u) = 2
        /\ VersionsOf(p, x) = {} /\ next_version(p, x) = 1

(* C6: in every reachable state of the document table, the one between the *)
(* INSERT and the demoting UPDATE included, at most one document of any    *)
(* (purchase, document type) has is_current = 1.                           *)
C6_AtMostOneCurrent ==
    \A i, j \in DOMAIN documents :
        (/\ SamePair(documents[i], documents[j])
         /\ documents[i].is_current = 1
         /\ documents[j].is_current = 1) => i = j

(* C7: a run of update_stage_date(pid, col, dt) changes nothing in the     *)
(* purchases table but the field col and the field status of row pid, and  *)
(* nothing in the other tables.                                            *)
C7_UpdateFrame ==
    [][\A w \in Writers :
         (pc[w] = "mark_read" \/ pc'[w] = "mark_read")
         => /\ DOMAIN purchases' = DOMAIN purchases
            /\ \A i \in DOMAIN purchases :
                 /\ DOMAIN purchases'[i] = DOMAIN purchases[i]
                 /\ \A f \in DOMAIN purchases[i] :
                      (\/ i \notin {local[w].pid, local'[w].pid}
                       \/ f \notin {local[w].col, local'[w].col, "status"})
                      => purchases'[i][f] = purchases[i][f]
            /\ UNCHANGED <<suppliers, projects, documents, files>>]_vars

(* C7 witness: two purchases, one of them created with RFQ Sent only on    *)
(* the first day and marked Quote Received on the second day.              *)
C7_Witness ==
    /\ Len(purchases) = 2
    /\ pc[1] = "idle"
    /\ \E i \in DOMAIN purchases :
          /\ purchases[i].rfq_sent_date = Text(month_text_date(Days[1]))
          /\ purchases[i].quote_received_date = Text(month_text_date(Days[2]))
          /\ purchases[i].status = "Quote Received"

(* C8: with two sessions the read of next_version and the INSERT are not   *)
(* one step: a session inserts the version it read even when a document of *)
(* its pair with that version or a later one was stored in between, which  *)
(* leaves two documents of the pair with the same version.                 *)
C8_StaleVersionInserted ==
    [][\A w \in Writers :
         (/\ pc[w] = "doc_stored" /\ pc'[w] = "doc_inserted"
          /\ \E i \in DOMAIN documents :
               /\ documents[i].purchase_id = local[w].pid
               /\ documents[i].doc_type = local[w].dtype
               /\ documents[i].version = local[w].v)
         => /\ Len(documents') = Len(documents) + 1
            /\ \E i \in DOMAIN documents :
                 /\ SamePair(documents[i], documents'[Len(documents')])
                 /\ documents[i].version = documents'[Len(documents')].version]_vars

(* C8 witness: both sessions idle and two stored documents of one pair     *)
(* with the same version.                                                  *)
C8_Witness ==
    /\ \A w \in Writers : pc[w] = "idle"
    /\ DuplicateVersions

(* C9: a save-document run that fails after its INSERT and before its      *)
(* UPDATE leaves the document table as the INSERT left it: the new         *)
(* document stored with is_current = 1, and every document of the pair     *)
(* that was current still current.                                         *)
C9_FailureKeepsInsert ==
    [][\A w \in Writers :
         (pc[w] = "doc_inserted" /\ pc'[w] = "idle" /\ aborts' # aborts)
         => /\ Len(documents') = Len(documents)
            /\ local[w].doc_id \in DOMAIN documents'
            /\ documents'[local[w].doc_id].is_current = 1
            /\ documents'[local[w].doc_id].purchase_id = local[w].pid
            /\ documents'[local[w].doc_id].doc_type = local[w].dtype
            /\ \A i \in DOMAIN documents :
                 documents[i].is_current = 1 => documents'[i].is_current = 1]_vars

(* C9 witness: after a failed run, no run in flight and two documents of   *)
(* one pair both with is_current = 1.                                      *)
C9_Witness ==
    /\ aborts > 0
    /\ pc[1] = "idle"
    /\ \E i, j \in DOMAIN documents :
          /\ i < j
          /\ SamePair(documents[i], documents[j])
          /\ documents[i].is_current = 1
          /\ documents[j].is_current = 1

ImmutableDocFields ==
    {"purchase_id", "doc_type", "filename", "saved_path", "uploaded_at", "version"}

(* C10: no step deletes a stored document or changes its purchase          *)
(* reference, document type, filename, saved path, upload date or version; *)
(* is_current is the only field of a stored document that changes.         *)
C10_DocumentsAppendOnly ==
    [][/\ Len(documents') >= Len(documents)
       /\ \A i \in DOMAIN documents :
            /\ DOMAIN documents'[i] = DOMAIN documents[i]
            /\ \A f \in ImmutableDocFields :
                 documents'[i][f] = documents[i][f]]_vars

(* C10 witness: a stored document whose is_current was set to 0, after a   *)
(* date was marked and a run failed.                                       *)
C10_Witness ==
    /\ marks > 0 /\ aborts > 0
    /\ \E i \in DOMAIN documents : documents[i].is_current = 0

(* C11: every save of a document file, by save_file or by save_text_pdf,   *)
(* writes to a path that did not exist before the save, so no stored file  *)
(* is overwritten.                                                         *)
C11_NoFileOverwritten ==
    [][\A w \in Writers :
         (pc[w] = "doc_read" /\ pc'[w] = "doc_stored")
         => local'[w].fpath \notin files]_vars

(* C12: right after Save Purchase at most one of the seven milestone       *)
(* fields of the new purchase is present, and its status is "Not Started"  *)
(* or the label of that one milestone.                                     *)
C12_CreatedWithAtMostOneDate ==
    [][Len(purchases') = Len(purchases) + 1
       => LET new == purchases'[Len(purchases')]
              set == {c \in Cols : new[c] \notin {NULL, Text("")}}
          IN /\ Cardinality(set) <= 1
             /\ \/ set = {} /\ new.status = "Not Started"
                \/ \E i \in DOMAIN STATUS_ORDER :
                     /\ set = {STATUS_ORDER[i].col}
                     /\ new.status = STATUS_ORDER[i].label]_vars

(* C13: over any sequence of reconcile passes, every row of the master     *)
(* table has an identity and no two rows have the same one; a row a pass   *)
(* inserts therefore never takes an identity the master holds at that      *)
(* moment.                                                                 *)
C13_IdentitiesUnique ==
    /\ \A i \in DOMAIN master : master[i].row_id \in IdPool
    /\ \A i, j \in DOMAIN master : master[i].row_id = master[j].row_id => i = j

(* C13 witness: a master of three rows, one of them with cells overwritten *)
(* by an update that left both key fields empty.                           *)
C13_Witness ==
    /\ Len(master) = Cardinality(IdPool)
    /\ \E i \in DOMAIN master :
          master[i].item_code = <<>> /\ master[i].description = <<>>

(* C14: at any time a purchase is listed under "Purchases at this stage"   *)
(* of a stage view exactly when its stored status is that view's label (in *)
(* menu order: Quote Received, Requisition Requested, Order Sent,          *)
(* Delivered, Invoice Signed, Sent for Receipting); so it is listed in at  *)
(* most one view, and in none while its status is "Not Started" or "RFQ    *)
(* Sent".                                                                  *)
ViewLabels ==
    <<"Quote Received", "Requisition Requested", "Order Sent", "Delivered",
      "Invoice Signed", "Sent for Receipting">>

C14_ListedIffStatusIsLabel ==
    [](/\ DOMAIN StagePages = DOMAIN ViewLabels
       /\ \A pid \in DOMAIN purchases :
             /\ \A page \in DOMAIN StagePages :
                   Listed(page, pid) <=> purchases[pid].status = ViewLabels[page]
             /\ \A page, other \in DOMAIN StagePages :
                   Listed(page, pid) /\ Listed(other, pid) => page = other
             /\ purchases[pid].status \in {"Not Started", "RFQ Sent"}
                => \A page \in DOMAIN StagePages : ~Listed(page, pid))

(* C14 witness: a purchase at "Delivered" that also has its quote date,   *)
(* listed under "Delivery / Invoice" only, next to a purchase at "RFQ      *)
(* Sent" that no view lists.                                               *)
C14_Witness ==
    \E p, q \in DOMAIN purchases :
        /\ purchases[p].status = "Delivered"
        /\ Truthy(purchases[p]["quote_received_date"])
        /\ {page \in DOMAIN StagePages : p \in StageListing(page)} = {4}
        /\ purchases[q].status = "RFQ Sent"
        /\ \A page \in DOMAIN StagePages : q \notin StageListing(page)

(* C15: with one writer the status never regresses.  In every step, for    *)
(* every purchase, the set of present milestone dates only grows and the   *)
(* position of the stored status in the pipeline (0 for "Not Started")     *)
(* does not decrease; the UPDATE of update_stage_date for a milestone      *)
(* before the current status stores a non-empty date and leaves the status *)
(* as it was.                                                              *)
PresentDates(p) == {c \in Cols : Truthy(p[c])}

StatusIndex(label) ==
    IF label = "Not Started" THEN 0
    ELSE CHOOSE k \in DOMAIN STATUS_ORDER : STATUS_ORDER[k].label = label

ColIndex(col) == CHOOSE k \in DOMAIN STATUS_ORDER : STATUS_ORDER[k].col = col

C15_StatusNeverRegresses ==
    [][/\ \A i \in DOMAIN purchases :
            /\ i \in DOMAIN purchases'
            /\ PresentDates(purchases[i]) \subseteq PresentDates(purchases'[i])
            /\ StatusIndex(purchases'[i].status) >= StatusIndex(purchases[i].status)
       /\ (pc[1] = "mark_read" /\ pc'[1] = "idle")
          => LET pid == local[1].pid
                 col == local[1].col
             IN /\ Truthy(purchases'[pid][col])
                /\ ColIndex(col) < StatusIndex(purchases[pid].status)
                   => purchases'[pid].status = purchases[pid].status]_vars

(* C15 witness: a purchase created with the RFQ and Delivered dates, then  *)
(* marked Quote Received: the earlier milestone is stored and the status   *)
(* is still "Delivered".                                                   *)
C15_Witness ==
    \E i \in DOMAIN purchases :
        /\ pc[1] = "idle"
        /\ PresentDates(purchases[i])
             = {"rfq_sent_date", "quote_received_date", "delivered_date"}
        /\ purchases[i].status = "Delivered"

(* C16: whenever the single writer has no save-document run in flight,     *)
(* every (purchase, document type) that has documents has exactly one with *)
(* is_current = 1, the one of the pair's greatest version, and the pair's  *)
(* versions are exactly 1..n for its n documents.                          *)
PairDocs(p, t) ==
    {i \in DOMAIN documents :
       documents[i].purchase_id = p /\ documents[i].doc_type = t}

C16_CurrentIsLatestOfDenseVersions ==
    pc[1] = "idle"
    => \A p \in DOMAIN purchases, t \in DocTypes :
          PairDocs(p, t) # {}
          => /\ {i \in PairDocs(p, t) : documents[i].is_current = 1}
                = {i \in PairDocs(p, t) :
                     \A j \in PairDocs(p, t) :
                        documents[j].version <= documents[i].version}
             /\ Cardinality({i \in PairDocs(p, t) : documents[i].is_current = 1}) = 1
             /\ VersionsOf(p, t) = 1..Cardinality(PairDocs(p, t))

(* C16 witness: three completed runs, two for one pair and one for another *)
(* pair, nothing in flight.                                                *)
C16_Witness ==
    /\ pc[1] = "idle"
    /\ \E p, q \in DOMAIN purchases, t, u \in DocTypes :
          /\ <<p, t>> # <<q, u>>
          /\ Cardinality(PairDocs(p, t)) = 2
          /\ Cardinality(PairDocs(q, u)) = 1

(* C17: no step of a save-document run for (purchase p, document type t)   *)
(* changes any field of a stored document whose purchase is not p or whose *)
(* type is not t; only documents of exactly (p, t) are demoted.            *)
C17_OtherPairsUntouched ==
    [][\A w \in Writers :
         pc'[w] # pc[w]
         => LET run == IF pc[w] = "idle" THEN local'[w] ELSE local[w]
            IN \A i \in DOMAIN documents :
                 (\/ documents[i].purchase_id # run.pid
                  \/ documents[i].doc_type # run.dtype)
                 => /\ i \in DOMAIN documents'
                    /\ documents'[i] = documents[i]]_vars

(* C17 witness: a run demoted the older document of its pair while an      *)
(* earlier document of the same purchase and another type is still the     *)
(* current one of its own pair.                                            *)
C17_Witness ==
    /\ pc[1] = "idle"
    /\ \E i, j, k \in DOMAIN documents :
          /\ k < j /\ i < j
          /\ SamePair(documents[i], documents[j])
          /\ documents[i].is_current = 0 /\ documents[j].is_current = 1
          /\ documents[k].purchase_id = documents[j].purchase_id
          /\ documents[k].doc_type # documents[j].doc_type
          /\ documents[k].is_current = 1

====
